---- MODULE Spec2Model ----
(***************************************************************************)
(* State-machine model of app.py, the single-file Streamlit application.   *)
(*                                                                         *)
(* One browser session is modelled.  Every user interaction re-runs the    *)
(* script: navbar() fixes the current page from the URL, render_page()     *)
(* runs the page function, and a pressed button runs that page's pipeline. *)
(* The aggregator pipelines are modelled one external call per step, so    *)
(* that the order of the calls is visible; each step contains the call,    *)
(* the except clauses that guard it and the code up to the next call.      *)
(*                                                                         *)
(* Python values are tagged records; coordinates are integers in tenths of *)
(* a degree.                                                               *)
(***************************************************************************)
EXTENDS Integers, Sequences, FiniteSets, TLC

VARIABLES
    current_page,     \* st.session_state.current_page
    query_page,       \* the "page" query parameter of the loaded URL
    medications,      \* st.session_state.medications
    journal_entries,  \* st.session_state.journal_entries
    appointments,     \* st.session_state.appointments
    nlp_qa,           \* the cached question-answering pipeline, or "None"
    feature,          \* the pipeline of the current script run
    pc,               \* its position
    input,            \* the submitted form input
    calls,            \* external calls issued by the current run, in order
    messages,         \* st.error / st.warning / st.success of the current run
    geocode_data,     \* locate_hospitals: parsed geocoding response
    coord,            \* locate_hospitals: <<lat, lon>> after float()
    overpass_data,    \* locate_hospitals: parsed Overpass response
    hospitals,        \* locate_hospitals: the list fed to the table and map
    id_list,          \* latest_research: response['esearchresult']['idlist']
    document,         \* the XML document fetched by research / trials
    records,          \* articles / studies after the isinstance normalisation
    rendered          \* article / trial rows written to the page

session == <<current_page, query_page, medications, journal_entries, appointments, nlp_qa>>
lists == <<medications, journal_entries, appointments>>
run == <<feature, pc, input, calls, messages>>
hospital_data == <<geocode_data, coord, overpass_data, hospitals>>
xml_data == <<id_list, document, records, rendered>>
vars == <<session, run, hospital_data, xml_data>>

(***************************************************************************)
(* Bounds of the model.                                                    *)
(***************************************************************************)
MaxElements == 2     \* elements in one Overpass response
MaxIds == 2          \* identifiers in one esearch response
MaxRecords == 2      \* article / study records in one XML document
MaxList == 2         \* entries in a scratch list

(***************************************************************************)
(* Program constants.                                                      *)
(***************************************************************************)
TIMEOUT == 10        \* timeout=10 of the guarded requests.get calls
NoTimeout == 0       \* requests.get without a timeout argument
USER_AGENT == "CancerSupportApp/1.0 (support@example.com)"
DefaultUserAgent == "python-requests"   \* requests.get without headers

PAGES == <<"Home", "Locate Hospitals", "Accommodation Resources", "Latest Research",
           "Financial Support", "Clinical Trials", "Emotional & Social Support",
           "Interactive Tools & Extras", "Symptom Checker", "Medication Tracker",
           "Personal Journal", "Appointment Scheduler", "AI Chatbot (Beta)">>

PageSet == {PAGES[i] : i \in 1..Len(PAGES)}

NoParam == "<no page parameter>"

(***************************************************************************)
(* Python values.                                                          *)
(***************************************************************************)
PyNone == [t |-> "none", s |-> "", n |-> 0]
PyStr(x) == [t |-> "str", s |-> x, n |-> 0]
PyNum(k) == [t |-> "num", s |-> "", n |-> k]
PyList == [t |-> "list", s |-> "", n |-> 1]      \* a non-empty list used as a scalar

\* bool(v): None, "" and 0 are false.
Truthy(v) ==
    CASE v.t = "none" -> FALSE
      [] v.t = "str" -> v.s # ""
      [] v.t = "num" -> v.n # 0
      [] OTHER -> TRUE

\* The decimal strings the providers are drawn from, as tenths of a degree.
FloatLiteral == [x \in {"40.7", "-74.0", "0"} |->
                    CASE x = "40.7" -> 407 [] x = "-74.0" -> -740 [] OTHER -> 0]

\* float(v): a number, ValueError for a non-numeric string, TypeError otherwise.
PyFloat(v) ==
    CASE v.t = "num" -> [raised |-> "", val |-> v.n]
      [] v.t = "str" /\ v.s \in DOMAIN FloatLiteral -> [raised |-> "", val |-> FloatLiteral[v.s]]
      [] v.t = "str" -> [raised |-> "ValueError", val |-> 0]
      [] OTHER -> [raised |-> "TypeError", val |-> 0]

\* str.strip() on the form inputs of the model.
Strip(s) == IF s \in {" ", "  "} THEN "" ELSE s

(***************************************************************************)
(* Exceptions of the requests library, each as the set of classes it is    *)
(* an instance of.  response.json() raises json.JSONDecodeError (a         *)
(* ValueError) in requests < 2.27 and requests.exceptions.JSONDecodeError  *)
(* (a RequestException and a ValueError) from 2.27 on; the version is not  *)
(* pinned, so both are outcomes.                                           *)
(***************************************************************************)
HTTPError == {"HTTPError", "RequestException", "Exception"}
ConnectTimeout == {"ConnectTimeout", "ConnectionError", "Timeout", "RequestException", "Exception"}
ReadTimeout == {"ReadTimeout", "Timeout", "RequestException", "Exception"}
ConnectionError == {"ConnectionError", "RequestException", "Exception"}
JSONDecodeErrorStdlib == {"JSONDecodeError", "ValueError", "Exception"}
JSONDecodeErrorRequests == {"JSONDecodeError", "InvalidJSONError", "RequestException",
                            "ValueError", "Exception"}

\* What requests.get(...) + raise_for_status() can raise.
TransportErrors == {HTTPError, ConnectTimeout, ReadTimeout, ConnectionError}
\* What response.json() can raise.
JsonErrors == {JSONDecodeErrorStdlib, JSONDecodeErrorRequests}

NoBody == [t |-> "nobody"]
Raised(e) == [raised |-> TRUE, exc |-> e, body |-> NoBody]
Returned(b) == [raised |-> FALSE, exc |-> {}, body |-> b]

\* The first except clause that matches, 0 when the exception propagates.
Dispatch(exc, clauses) ==
    LET hit == {i \in 1..Len(clauses) : clauses[i].class \in exc}
    IN IF hit = {} THEN 0 ELSE CHOOSE i \in hit : \A j \in hit : i <= j

(***************************************************************************)
(* Output of a run.                                                        *)
(***************************************************************************)
Msg(level, text) == [level |-> level, text |-> text]
Error(text) == Msg("error", text)
Warning(text) == Msg("warning", text)
\* An exception nobody caught: Streamlit prints the traceback and ends the run.
Uncaught(class) == Msg("exception", class)

Call(provider, timeout, agent, arg) ==
    [provider |-> provider, timeout |-> timeout, user_agent |-> agent, arg |-> arg]

NoData == [t |-> "unset"]
NoCoord == <<>>

Idle == pc \in {"Idle", "Done", "Failed"}

\* A new script run forgets what the previous run displayed.
ClearFetched ==
    /\ geocode_data' = NoData
    /\ coord' = NoCoord
    /\ overpass_data' = NoData
    /\ hospitals' = <<>>
    /\ id_list' = NoData
    /\ document' = NoData
    /\ records' = <<>>

ClearData ==
    /\ ClearFetched
    /\ rendered' = <<>>

ClearRun ==
    /\ calls' = <<>>
    /\ messages' = <<>>
    /\ ClearData

\* The widgets a page function reads: one text, and for the trial finder a
\* location and a phase as well.
Form(text, location, phase) == [text |-> text, location |-> location, phase |-> phase]
NoForm == Form("", "", "")

QaUnavailable == Error("The QA model is not available. Please ensure 'transformers' is installed and try again.")

\* What a page writes when it is rendered with no button pressed (lines 924-926).
PageMessages(page) ==
    IF page = "AI Chatbot (Beta)" /\ nlp_qa = "None" THEN <<QaUnavailable>> ELSE <<>>

(***************************************************************************)
(* What the scratch-list pages draw.                                       *)
(***************************************************************************)
\* The three sort keys of the pages, as "a sorts before b".
\* "date desc": key=lambda x: x["date"], reverse=True (line 865).
\* "date": the same key without reverse.
\* "date, time": key=lambda x: (x["date"], x["time"]) (line 900); tuples
\* compare item by item.
Before(order, a, b) ==
    CASE order = "date desc" -> a.date > b.date
      [] order = "date" -> a.date < b.date
      [] OTHER -> a.date < b.date \/ (a.date = b.date /\ a.time < b.time)

\* x put into the sorted xs before the first element it sorts before: after
\* every element of an equal key, as a stable sort places it.
RECURSIVE Insert(_, _, _)
Insert(x, xs, order) ==
    IF xs = <<>> THEN <<x>>
    ELSE IF Before(order, x, Head(xs)) THEN <<x>> \o xs
    ELSE <<Head(xs)>> \o Insert(x, Tail(xs), order)

\* sorted(xs, key=..., reverse=...): stable, elements of equal key keep
\* their order.
RECURSIVE Sorted(_, _)
Sorted(xs, order) ==
    IF xs = <<>> THEN <<>>
    ELSE Insert(xs[Len(xs)], Sorted(SubSeq(xs, 1, Len(xs) - 1), order), order)

\* DisplayJournal in the order of sorted() without reverse=True.
DisplayJournalOldestFirst(entries) == Sorted(entries, "date")

\* pd.DataFrame(medications): one row per entry, in list order (lines 822-825).
DisplayMedications(meds) == meds
\* Lines 863-868.
DisplayJournal(entries) == Sorted(entries, "date desc")
\* Lines 898-902.
DisplayAppointments(appts) == Sorted(appts, "date, time")

\* The list a page draws when no button is pressed.
PageDisplay(page) ==
    CASE page = "Medication Tracker" -> DisplayMedications(medications)
      [] page = "Personal Journal" -> DisplayJournal(journal_entries)
      [] page = "Appointment Scheduler" -> DisplayAppointments(appointments)
      [] OTHER -> <<>>

(***************************************************************************)
(* Navigation.                                                             *)
(***************************************************************************)
\* query_params['page'][0].replace("+", " "), for the one value of the model
\* that holds a "+".
SelectedPage(q) == IF q = "Symptom+Checker" THEN "Symptom Checker" ELSE q

\* navbar() with "Home" for a page value it does not know.
NavbarPageOrHome(q, cur) ==
    IF q # NoParam /\ SelectedPage(q) \in PageSet THEN SelectedPage(q) ELSE "Home"

\* navbar(): the page the run shows, from the URL and the session.
NavbarPage(q, cur) ==
    IF q # NoParam
    THEN IF SelectedPage(q) \in PageSet THEN SelectedPage(q) ELSE cur
    ELSE "Home"

Init ==
    /\ current_page = "Home"
    /\ query_page = NoParam
    /\ medications = <<>>
    /\ journal_entries = <<>>
    /\ appointments = <<>>
    /\ nlp_qa \in {"pipeline", "None"}
    /\ feature = "none"
    /\ pc = "Idle"
    /\ input = NoForm
    /\ calls = <<>>
    /\ messages = <<>>
    /\ geocode_data = NoData
    /\ coord = NoCoord
    /\ overpass_data = NoData
    /\ hospitals = <<>>
    /\ id_list = NoData
    /\ document = NoData
    /\ records = <<>>
    /\ rendered = <<>>

\* The browser loads the app with the given page parameter: main() with no button pressed.
LoadPage(q) ==
    /\ Idle
    /\ query_page' = q
    /\ current_page' = NavbarPage(q, current_page)
    /\ feature' = "none"
    /\ pc' = "Idle"
    /\ input' = NoForm
    /\ calls' = <<>>
    /\ messages' = PageMessages(NavbarPage(q, current_page))
    /\ ClearFetched
    /\ rendered' = PageDisplay(NavbarPage(q, current_page))
    /\ UNCHANGED <<lists, nlp_qa>>

\* Every button press re-runs main(): navbar() first, then the page.
Rerun(page) ==
    /\ Idle
    /\ NavbarPage(query_page, current_page) = page
    /\ current_page' = page
    /\ UNCHANGED query_page

(***************************************************************************)
(* Hospital locator: locate_hospitals().                                   *)
(***************************************************************************)
\* The text_input of the page; "New York" is its default.
Locations == {"", "New York"}

Args(text, point) == [text |-> text, point |-> point]

\* A geocoding candidate: a JSON object; an absent key reads as None with .get().
Candidate(lat, lon) == [t |-> "dict", lat |-> lat, lon |-> lon]
JsonList(items) == [t |-> "list", items |-> items, size |-> Len(items)]
\* A JSON object where a list was expected, with its number of keys.
JsonObject(size) == [t |-> "dict", items |-> <<>>, size |-> size]

LatValues == {PyNone, PyStr("40.7"), PyStr("north"), PyList}
LonValues == {PyNone, PyStr("-74.0"), PyStr("")}

GeocodeBodies ==
    {JsonList(<<>>), JsonList(<<PyStr("x")>>), JsonObject(0), JsonObject(1)}
    \cup {JsonList(<<Candidate(a, b)>>) : a \in LatValues, b \in LonValues}

GeocodeResponses ==
    {Raised(e) : e \in TransportErrors \cup JsonErrors} \cup {Returned(b) : b \in GeocodeBodies}

\* bool() of a parsed JSON body: an empty list or object is false.
BodyTruthy(b) == b.size > 0

GeocodeClauses == <<
    [class |-> "HTTPError", msg |-> Error("HTTP error occurred during geocoding")],
    [class |-> "Timeout", msg |-> Error("The request timed out. Please try again later.")],
    [class |-> "RequestException", msg |-> Error("An error occurred during geocoding")],
    [class |-> "ValueError", msg |-> Error("Received an invalid response from the geocoding service.")] >>

LocationNotFound == Error("Location not found. Please try a different location.")
NoLatLon == Error("Could not retrieve latitude and longitude for the specified location.")
InvalidLatLon == Error("Invalid latitude or longitude values received.")

\* The class an exception is reported under when nothing catches it.
ExcName(exc) ==
    CASE "HTTPError" \in exc -> "HTTPError"
      [] "Timeout" \in exc -> "Timeout"
      [] "JSONDecodeError" \in exc -> "JSONDecodeError"
      [] "ExpatError" \in exc -> "ExpatError"
      [] OTHER -> "ConnectionError"

\* The outcome of a try block: the message of the matching clause and return,
\* or the exception leaving the page function.
Handled(exc, clauses) ==
    LET i == Dispatch(exc, clauses)
    IN IF i = 0 THEN Uncaught(ExcName(exc)) ELSE clauses[i].msg

GeoStop(data, msg) == [pc |-> "Failed", data |-> data, coord |-> NoCoord, msgs |-> <<msg>>]

\* Lines 317-329: the first candidate, its lat and lon, float().
AfterCandidates(data) ==
    IF data.t # "list" THEN GeoStop(data, Uncaught("KeyError"))
    ELSE LET first == data.items[1] IN
      IF first.t # "dict" THEN GeoStop(data, Uncaught("AttributeError"))
      ELSE IF ~Truthy(first.lat) \/ ~Truthy(first.lon) THEN GeoStop(data, NoLatLon)
      ELSE LET lat == PyFloat(first.lat)
               lon == PyFloat(first.lon)
           IN IF lat.raised = "ValueError" THEN GeoStop(data, InvalidLatLon)
              ELSE IF lat.raised = "TypeError" THEN GeoStop(data, Uncaught("TypeError"))
              ELSE IF lon.raised = "ValueError" THEN GeoStop(data, InvalidLatLon)
              ELSE IF lon.raised = "TypeError" THEN GeoStop(data, Uncaught("TypeError"))
              ELSE [pc |-> "LocatingFacilities", data |-> data,
                    coord |-> <<lat.val, lon.val>>, msgs |-> <<>>]

\* AfterGeocode without the `if geocode_data:` test: [0] of an empty list raises.
AfterGeocodeNoEmptyTest(resp) ==
    IF resp.raised THEN GeoStop(NoData, Handled(resp.exc, GeocodeClauses))
    ELSE IF resp.body.size = 0 THEN GeoStop(resp.body, Uncaught("IndexError"))
    ELSE AfterCandidates(resp.body)

\* Lines 299-329 and 402-403: the geocoding try block and what follows it up
\* to the Overpass call.
AfterGeocode(resp) ==
    IF resp.raised THEN GeoStop(NoData, Handled(resp.exc, GeocodeClauses))
    ELSE IF ~BodyTruthy(resp.body) THEN GeoStop(resp.body, LocationNotFound)
    ELSE AfterCandidates(resp.body)

\* An Overpass element.  center is what element.get('center') returns.
NoCenter == [present |-> FALSE, lat |-> PyNone, lon |-> PyNone]
Center(lat, lon) == [present |-> TRUE, lat |-> lat, lon |-> lon]
Element(lat, lon, center, name) == [lat |-> lat, lon |-> lon, center |-> center, name |-> name]

DirectCoords == {<<PyNone, PyNone>>, <<PyNum(515), PyNum(-1)>>, <<PyNum(0), PyNum(73)>>}
Centers == {NoCenter, Center(PyNum(488), PyNum(23)), Center(PyNum(488), PyNum(0))}
Names == {PyNone, PyStr("General Hospital")}

\* Named elements without a coordinate or with a usual one, beside each
\* center; a named node on the equator; an unnamed node.
Elements ==
    {Element(d[1], d[2], c, n) :
        d \in DirectCoords \ {<<PyNum(0), PyNum(73)>>}, c \in Centers, n \in Names \ {PyNone}}
    \cup {Element(PyNum(0), PyNum(73), NoCenter, PyStr("General Hospital")),
          Element(PyNum(515), PyNum(-1), NoCenter, PyNone)}

SeqsUpTo(S, n) == UNION {[1..k -> S] : k \in 0..n}

OverpassObject(has, elements) == [t |-> "dict", has_elements |-> has, elements |-> elements]
OverpassArray == [t |-> "list", has_elements |-> FALSE, elements |-> <<>>]

OverpassBodies ==
    {OverpassArray, OverpassObject(FALSE, <<>>)}
    \cup {OverpassObject(TRUE, es) : es \in SeqsUpTo(Elements, MaxElements)}

OverpassResponses ==
    {Raised(e) : e \in TransportErrors \cup JsonErrors} \cup {Returned(b) : b \in OverpassBodies}

OverpassClauses == <<
    [class |-> "HTTPError", msg |-> Error("HTTP error occurred while fetching hospitals")],
    [class |-> "Timeout", msg |-> Error("The request to Overpass API timed out. Please try again later.")],
    [class |-> "RequestException", msg |-> Error("An error occurred while fetching hospitals")],
    [class |-> "ValueError", msg |-> Error("Received an invalid response from the Overpass API.")] >>

NoHospitals == Error("No hospitals found within a 50km radius.")

\* a or b
PyOr(a, b) == IF Truthy(a) THEN a ELSE b

\* element.get('lat') or (element.get('center', {}).get('lat') if element.get('center') else None)
LatH(e) == PyOr(e.lat, IF e.center.present THEN e.center.lat ELSE PyNone)
LonH(e) == PyOr(e.lon, IF e.center.present THEN e.center.lon ELSE PyNone)

\* if lat_h and lon_h:
Qualifies(e) == Truthy(LatH(e)) /\ Truthy(LonH(e))

\* tags.get('name', 'Unnamed Hospital')
HospitalName(e) == IF e.name.t = "none" THEN "Unnamed Hospital" ELSE e.name.s

HospitalRow(e) == [Name |-> HospitalName(e), Latitude |-> LatH(e).n, Longitude |-> LonH(e).n]

\* Lines 365-376: the extraction loop.
RECURSIVE ExtractHospitals(_)
ExtractHospitals(es) ==
    IF es = <<>> THEN <<>>
    ELSE (IF Qualifies(Head(es)) THEN <<HospitalRow(Head(es))>> ELSE <<>>)
         \o ExtractHospitals(Tail(es))

\* "Find Hospitals" pressed: the run starts and reaches the geocoding call.
FindHospitals(location) ==
    /\ Rerun("Locate Hospitals")
    /\ feature' = "hospital"
    /\ pc' = "Geocoding"
    /\ input' = Form(location, "", "")
    /\ ClearRun
    /\ UNCHANGED <<lists, nlp_qa>>

\* Lines 299-329.
GeocodeWith(resp) ==
    /\ feature = "hospital"
    /\ pc = "Geocoding"
    /\ LET res == AfterGeocode(resp) IN
         /\ calls' = Append(calls, Call("nominatim", TIMEOUT, USER_AGENT, Args(input.text, <<>>)))
         /\ geocode_data' = res.data
         /\ coord' = res.coord
         /\ messages' = messages \o res.msgs
         /\ pc' = res.pc
    /\ UNCHANGED <<session, feature, input, overpass_data, hospitals, xml_data>>

Geocode == \E resp \in GeocodeResponses : GeocodeWith(resp)

\* LocateFacilities with a retry: a failed Overpass call is issued again.
LocateFacilitiesRetry ==
    /\ feature = "hospital"
    /\ pc = "LocatingFacilities"
    /\ calls' = Append(calls, Call("overpass", TIMEOUT, USER_AGENT, Args("", coord)))
    /\ \E resp \in OverpassResponses :
         IF resp.raised
         THEN /\ pc' = "LocatingFacilities"
              /\ UNCHANGED <<messages, overpass_data>>
         ELSE /\ overpass_data' = resp.body
              /\ pc' = "Rendering"
              /\ UNCHANGED messages
    /\ UNCHANGED <<session, feature, input, geocode_data, coord, hospitals, xml_data>>

\* Lines 331-363: the Overpass call and its except clauses.
LocateFacilitiesWith(resp) ==
    /\ feature = "hospital"
    /\ pc = "LocatingFacilities"
    /\ calls' = Append(calls, Call("overpass", TIMEOUT, USER_AGENT, Args("", coord)))
    /\ IF resp.raised
       THEN /\ messages' = Append(messages, Handled(resp.exc, OverpassClauses))
            /\ pc' = "Failed"
            /\ UNCHANGED overpass_data
       ELSE /\ overpass_data' = resp.body
            /\ pc' = "Rendering"
            /\ UNCHANGED messages
    /\ UNCHANGED <<session, feature, input, geocode_data, coord, hospitals, xml_data>>

LocateFacilities == \E resp \in OverpassResponses : LocateFacilitiesWith(resp)

\* Lines 365-401: extraction, then the map and table or "No hospitals found".
RenderHospitals ==
    /\ feature = "hospital"
    /\ pc = "Rendering"
    /\ IF overpass_data.t # "dict"
       THEN /\ messages' = Append(messages, Uncaught("AttributeError"))
            /\ pc' = "Failed"
            /\ UNCHANGED hospitals
       ELSE LET found == ExtractHospitals(overpass_data.elements) IN
            /\ hospitals' = found
            /\ IF found # <<>>
               THEN pc' = "Done" /\ UNCHANGED messages
               ELSE pc' = "Failed" /\ messages' = Append(messages, NoHospitals)
    /\ UNCHANGED <<session, feature, input, calls, geocode_data, coord, overpass_data, xml_data>>

(***************************************************************************)
(* XML documents as xmltodict.parse() returns them.  An element with child *)
(* elements or attributes is a dict, a text-only element a str, an empty   *)
(* element None; a child tag occurring once is that value, a tag occurring *)
(* several times a list of the values.                                     *)
(***************************************************************************)
XmlDocument(root, children) == [wellformed |-> TRUE, root |-> root, children |-> children]
MalformedXml == [wellformed |-> FALSE, root |-> "", children |-> <<>>]

Absent == [t |-> "absent"]
XmlNone == [t |-> "none"]
XmlList(items) == [t |-> "list", items |-> items]

\* parent.get(tag, default) for the repeated child tag of a parsed parent.
XmlChildren(children) ==
    CASE Len(children) = 0 -> Absent
      [] Len(children) = 1 -> children[1]
      [] OTHER -> XmlList(children)

\* Normalize without the isinstance branch.
NormalizeNothing(x) == x

\* if isinstance(x, dict): x = [x]
Normalize(x) == IF x.t = "dict" THEN XmlList(<<x>>) ELSE x

\* data_dict.get(root, {}).get(tag, []): the value, or the exception raised.
RecordsOf(doc, root) ==
    IF doc.root # root THEN [raised |-> FALSE, value |-> XmlList(<<>>)]
    ELSE IF doc.children = <<>> THEN [raised |-> TRUE, value |-> XmlNone]
    ELSE [raised |-> FALSE, value |-> XmlChildren(doc.children)]

\* ",".join(xs)
RECURSIVE Join(_, _)
Join(xs, sep) ==
    IF xs = <<>> THEN ""
    ELSE IF Len(xs) = 1 THEN xs[1]
    ELSE xs[1] \o sep \o Join(Tail(xs), sep)

(***************************************************************************)
(* Research lookup: latest_research().                                     *)
(***************************************************************************)
Topics == {"", "Breast Cancer"}
Pmids == {"111", "222"}

SearchResult(ids) == [t |-> "dict", has_result |-> TRUE, idlist |-> ids]
SearchErrorObject == [t |-> "dict", has_result |-> FALSE, idlist |-> <<>>]

SearchResponses ==
    {Raised(e) : e \in {ConnectionError} \cup JsonErrors}
    \cup {Returned(SearchErrorObject)}
    \cup {Returned(SearchResult(ids)) : ids \in SeqsUpTo(Pmids, MaxIds)}

\* A PubmedArticle element.  citation and article say what the MedlineCitation
\* and Article keys hold; title is ArticleTitle; pmid is the PMID element.
PubmedArticle(citation, article, title, pmid) ==
    [t |-> "dict", citation |-> citation, article |-> article, title |-> title, pmid |-> pmid]
PmidElement(text) == [t |-> "dict", text |-> text]      \* <PMID Version="1">text</PMID>
PmidText(text) == [t |-> "str", text |-> text]          \* <PMID>text</PMID>
TextElement == [t |-> "str"]

Articles == {
    PubmedArticle("dict", "dict", PyStr("Title A"), PmidElement("111")),
    PubmedArticle("dict", "dict", PyStr("Title B"), PmidElement("222")),
    PubmedArticle("dict", "absent", PyNone, PmidElement("111")),
    PubmedArticle("dict", "dict", PyStr("Title A"), PmidText("111")),
    PubmedArticle("none", "absent", PyNone, Absent),
    TextElement }

FetchDocuments ==
    {MalformedXml, XmlDocument("eFetchResult", <<>>)}
    \cup {XmlDocument("PubmedArticleSet", as) : as \in SeqsUpTo(Articles, MaxRecords)}

FetchResponses == {Raised(ConnectionError)} \cup {Returned(d) : d \in FetchDocuments}

NoArticles == Warning("No articles found for the specified cancer type.")
ResearchParseError == Error("Error parsing research articles.")

\* Lines 485-488 for one article: the row, or raised when a .get() hits a non-dict.
ArticleRow(a) ==
    IF a.t # "dict" \/ a.citation = "none" \/ a.article = "none" THEN [raised |-> TRUE]
    ELSE LET title == IF a.citation = "absent" \/ a.article = "absent" \/ a.title.t = "none"
                      THEN "No Title" ELSE a.title.s
         IN IF a.citation = "absent" \/ a.pmid.t = "absent"
            THEN [raised |-> FALSE, title |-> title, link |-> "https://pubmed.ncbi.nlm.nih.gov//"]
            ELSE IF a.pmid.t # "dict" THEN [raised |-> TRUE]
            ELSE [raised |-> FALSE, title |-> title,
                  link |-> "https://pubmed.ncbi.nlm.nih.gov/" \o a.pmid.text \o "/"]

Row(r) == [title |-> r.title, link |-> r.link]

\* The for loop of lines 484-488: rows written until an article raises.
RECURSIVE RenderArticles(_)
RenderArticles(as) ==
    IF as = <<>> THEN [rows |-> <<>>, raised |-> FALSE]
    ELSE LET r == ArticleRow(Head(as)) IN
         IF r.raised THEN [rows |-> <<>>, raised |-> TRUE]
         ELSE LET rest == RenderArticles(Tail(as))
              IN [rows |-> <<Row(r)>> \o rest.rows, raised |-> rest.raised]

\* "Get Latest Research" pressed.
GetLatestResearch(topic) ==
    /\ Rerun("Latest Research")
    /\ feature' = "research"
    /\ pc' = "Searching"
    /\ input' = Form(topic, "", "")
    /\ ClearRun
    /\ UNCHANGED <<lists, nlp_qa>>

\* Search without the `if id_list:` test: efetch follows every search.
SearchAlwaysFetches ==
    /\ feature = "research"
    /\ pc = "Searching"
    /\ calls' = Append(calls, Call("esearch", NoTimeout, DefaultUserAgent, Args(input.text, <<>>)))
    /\ \E resp \in SearchResponses :
         IF resp.raised
         THEN /\ messages' = Append(messages, Uncaught(ExcName(resp.exc)))
              /\ pc' = "Failed"
              /\ UNCHANGED id_list
         ELSE IF ~resp.body.has_result
         THEN /\ messages' = Append(messages, Uncaught("KeyError"))
              /\ pc' = "Failed"
              /\ UNCHANGED id_list
         ELSE /\ id_list' = JsonList(resp.body.idlist)
              /\ pc' = "Fetching"
              /\ UNCHANGED messages
    /\ UNCHANGED <<session, feature, input, hospital_data, document, records, rendered>>

\* Lines 453-464 and 491-492: esearch, outside any try block.
Search ==
    /\ feature = "research"
    /\ pc = "Searching"
    /\ calls' = Append(calls, Call("esearch", NoTimeout, DefaultUserAgent, Args(input.text, <<>>)))
    /\ \E resp \in SearchResponses :
         IF resp.raised
         THEN /\ messages' = Append(messages, Uncaught(ExcName(resp.exc)))
              /\ pc' = "Failed"
              /\ UNCHANGED id_list
         ELSE IF ~resp.body.has_result
         THEN /\ messages' = Append(messages, Uncaught("KeyError"))
              /\ pc' = "Failed"
              /\ UNCHANGED id_list
         ELSE /\ id_list' = JsonList(resp.body.idlist)
              /\ IF BodyTruthy(JsonList(resp.body.idlist))
                 THEN pc' = "Fetching" /\ UNCHANGED messages
                 ELSE pc' = "Done" /\ messages' = Append(messages, NoArticles)
    /\ UNCHANGED <<session, feature, input, hospital_data, document, records, rendered>>

\* Lines 466-473: efetch for the comma-joined identifiers, outside any try block.
Fetch ==
    /\ feature = "research"
    /\ pc = "Fetching"
    /\ calls' = Append(calls, Call("efetch", NoTimeout, DefaultUserAgent,
                                   Args(Join(id_list.items, ","), <<>>)))
    /\ \E resp \in FetchResponses :
         IF resp.raised
         THEN /\ messages' = Append(messages, Uncaught(ExcName(resp.exc)))
              /\ pc' = "Failed"
              /\ UNCHANGED document
         ELSE /\ document' = resp.body
              /\ pc' = "Parsing"
              /\ UNCHANGED messages
    /\ UNCHANGED <<session, feature, input, hospital_data, id_list, records, rendered>>

\* The value of `articles` at line 484 and whether lines 477-481 raised.
ParsedArticles(doc) ==
    IF ~doc.wellformed THEN [raised |-> TRUE, value |-> XmlNone]
    ELSE LET got == RecordsOf(doc, "PubmedArticleSet")
         IN [raised |-> got.raised, value |-> Normalize(got.value)]

\* Lines 476-490: parse, normalise, render; one except clause for all of it.
ParseArticles ==
    /\ feature = "research"
    /\ pc = "Parsing"
    /\ LET parsed == ParsedArticles(document) IN
       IF parsed.raised \/ parsed.value.t # "list"
       THEN /\ messages' = Append(messages, ResearchParseError)
            /\ pc' = "Failed"
            /\ UNCHANGED <<records, rendered>>
       ELSE LET out == RenderArticles(parsed.value.items) IN
            /\ records' = parsed.value.items
            /\ rendered' = out.rows
            /\ IF out.raised
               THEN pc' = "Failed" /\ messages' = Append(messages, ResearchParseError)
               ELSE pc' = "Done" /\ UNCHANGED messages
    /\ UNCHANGED <<session, feature, input, calls, hospital_data, id_list, document>>

(***************************************************************************)
(* Clinical trial finder: clinical_trials().                               *)
(***************************************************************************)
TrialForms == {Form("Lung Cancer", "New York", "All"), Form("Lung Cancer", "New York", "Phase 1"),
               Form("", "New York", "All"), Form("Lung Cancer", "", "All")}

\* Lines 573-575.
TrialQuery(f) ==
    f.text \o "[Condition] AND " \o f.location \o "[Location]"
    \o (IF f.phase # "All" THEN " AND " \o f.phase \o "[Phase]" ELSE "")

TrialClauses == <<
    [class |-> "HTTPError", msg |-> Error("HTTP error occurred while fetching clinical trials")],
    [class |-> "Timeout", msg |-> Error("The request timed out. Please try again later.")],
    [class |-> "RequestException", msg |-> Error("An error occurred while fetching clinical trials")] >>

\* The location_countries element of a study: absent, empty, or holding
\* location_country children that are text (names) or elements with a
\* location child (dicts).
NoCountries == [k |-> "absent", names |-> <<>>]
EmptyCountries == [k |-> "none", names |-> <<>>]
CountryNames(names) == [k |-> "names", names |-> names]
CountryDicts(names) == [k |-> "dicts", names |-> names]

\* A clinical_study element; id_info says what the id_info key holds.
Study(title, status, phase, countries, id_info, nct_id) ==
    [t |-> "dict", title |-> title, status |-> status, phase |-> phase,
     countries |-> countries, id_info |-> id_info, nct_id |-> nct_id]

Studies == {
    Study(PyStr("Trial A"), PyStr("Recruiting"), PyStr("Phase 1"),
          CountryDicts(<<"United States", "Canada">>), "dict", PyStr("NCT1")),
    Study(PyNone, PyNone, PyNone, CountryNames(<<"United States">>), "dict", PyStr("NCT2")),
    Study(PyStr("Trial C"), PyStr("Completed"), PyNone, NoCountries, "absent", PyNone),
    Study(PyStr("Trial D"), PyStr("Recruiting"), PyNone, EmptyCountries, "dict", PyStr("NCT4")),
    Study(PyStr("Trial E"), PyNone, PyNone, CountryDicts(<<"France">>), "none", PyNone),
    TextElement }

TrialDocuments ==
    {MalformedXml, XmlDocument("error", <<>>), XmlDocument("clinical_studies", <<XmlNone>>)}
    \cup {XmlDocument("clinical_studies", ss) : ss \in SeqsUpTo(Studies, MaxRecords)}

TrialResponses == {Raised(e) : e \in TransportErrors} \cup {Returned(d) : d \in TrialDocuments}

NoTrials == Warning("No clinical trials found for the given criteria.")
TrialParseError == Error("Error parsing clinical trials data.")

PyGet(v, default) == IF v.t = "none" THEN default ELSE v.s

\* Lines 616-627: the locations text of a study, or raised when
\* study.get('location_countries', {}) is not a dict.
TrialLocations(study) ==
    LET c == study.countries IN
    CASE c.k = "absent" -> [raised |-> FALSE, text |-> "Unknown"]
      [] c.k = "none" -> [raised |-> TRUE, text |-> ""]
      [] c.k = "names" -> [raised |-> FALSE, text |-> "Unknown"]
      [] OTHER -> [raised |-> FALSE, text |-> Join(c.names, ", ")]

\* Lines 613-637 for one study.
TrialRow(study) ==
    IF study.t # "dict" THEN [raised |-> TRUE]
    ELSE LET loc == TrialLocations(study) IN
         IF loc.raised \/ study.id_info = "none" THEN [raised |-> TRUE]
         ELSE LET nct == IF study.id_info = "absent" THEN "" ELSE PyGet(study.nct_id, "")
              IN [raised |-> FALSE,
                  title |-> PyGet(study.title, "No Title"),
                  link |-> IF nct # "" THEN "https://clinicaltrials.gov/ct2/show/" \o nct ELSE "#",
                  status |-> PyGet(study.status, "Status Unknown"),
                  phase |-> PyGet(study.phase, "N/A"),
                  locations |-> loc.text]

TrialOut(r) == [title |-> r.title, link |-> r.link, status |-> r.status,
                phase |-> r.phase, locations |-> r.locations]

\* The for loop of lines 612-637: rows written until a study raises.
RECURSIVE RenderTrials(_)
RenderTrials(ss) ==
    IF ss = <<>> THEN [rows |-> <<>>, raised |-> FALSE]
    ELSE LET r == TrialRow(Head(ss)) IN
         IF r.raised THEN [rows |-> <<>>, raised |-> TRUE]
         ELSE LET rest == RenderTrials(Tail(ss))
              IN [rows |-> <<TrialOut(r)>> \o rest.rows, raised |-> rest.raised]

\* The value of `studies` at line 610 and whether lines 604-608 raised.
ParsedStudies(doc) ==
    IF ~doc.wellformed THEN [raised |-> TRUE, value |-> XmlNone]
    ELSE LET got == RecordsOf(doc, "clinical_studies")
         IN [raised |-> got.raised, value |-> Normalize(got.value)]

\* "Find Clinical Trials" pressed.
FindClinicalTrials(form) ==
    /\ Rerun("Clinical Trials")
    /\ feature' = "trials"
    /\ pc' = "Querying"
    /\ input' = form
    /\ ClearRun
    /\ UNCHANGED <<lists, nlp_qa>>

\* Lines 589-600: the registry call and its except clauses.
QueryTrialsWith(resp) ==
    /\ feature = "trials"
    /\ pc = "Querying"
    /\ calls' = Append(calls, Call("clinicaltrials", TIMEOUT, USER_AGENT,
                                   Args(TrialQuery(input), <<>>)))
    /\ IF resp.raised
       THEN /\ messages' = Append(messages, Handled(resp.exc, TrialClauses))
            /\ pc' = "Failed"
            /\ UNCHANGED document
       ELSE /\ document' = resp.body
            /\ pc' = "Parsing"
            /\ UNCHANGED messages
    /\ UNCHANGED <<session, feature, input, hospital_data, id_list, records, rendered>>

QueryTrials == \E resp \in TrialResponses : QueryTrialsWith(resp)

\* Lines 603-641: parse, normalise, render; one except clause for all of it.
ParseTrials ==
    /\ feature = "trials"
    /\ pc = "Parsing"
    /\ LET parsed == ParsedStudies(document) IN
       IF parsed.raised \/ parsed.value.t = "str"
       THEN /\ messages' = Append(messages, TrialParseError)
            /\ pc' = "Failed"
            /\ UNCHANGED <<records, rendered>>
       ELSE IF parsed.value.t # "list" \/ parsed.value.items = <<>>
       THEN /\ messages' = Append(messages, NoTrials)
            /\ pc' = "Done"
            /\ UNCHANGED <<records, rendered>>
       ELSE LET out == RenderTrials(parsed.value.items) IN
            /\ records' = parsed.value.items
            /\ rendered' = out.rows
            /\ IF out.raised
               THEN pc' = "Failed" /\ messages' = Append(messages, TrialParseError)
               ELSE pc' = "Done" /\ UNCHANGED messages
    /\ UNCHANGED <<session, feature, input, calls, hospital_data, id_list, document>>

(***************************************************************************)
(* Question answering: ai_chatbot().                                       *)
(***************************************************************************)
Questions == {"", " ", "What is cancer?"}

EnterQuestion == Warning("Please enter a question.")
QaError == Error("An error occurred while processing your question")

\* The passage of lines 917-922, by its first words.
CONTEXT == "Cancer is a group of diseases"

\* nlp_qa({'question': ..., 'context': context}) (lines 933-936).
QaCall(question) == Call("nlp_qa", NoTimeout, "", Args(question, <<CONTEXT>>))

\* GetAnswer without the test of line 924.
GetAnswerUnchecked(question) ==
    /\ Rerun("AI Chatbot (Beta)")
    /\ feature' = "qa"
    /\ input' = Form(question, "", "")
    /\ ClearData
    /\ IF Strip(question) # ""
       THEN /\ calls' = <<QaCall(question)>>
            /\ \E ok \in BOOLEAN :
                 IF ok THEN pc' = "Done" /\ messages' = <<>>
                 ELSE pc' = "Failed" /\ messages' = <<QaError>>
       ELSE /\ calls' = <<>>
            /\ pc' = "Done"
            /\ messages' = <<EnterQuestion>>
    /\ UNCHANGED <<lists, nlp_qa>>

\* "Get Answer" pressed (lines 924-941); the model answers or raises.  The
\* button is drawn only when line 924 finds a pipeline.
GetAnswer(question) ==
    /\ Rerun("AI Chatbot (Beta)")
    /\ nlp_qa # "None"
    /\ feature' = "qa"
    /\ input' = Form(question, "", "")
    /\ ClearData
    /\ IF Strip(question) # ""
       THEN /\ calls' = <<QaCall(question)>>
            /\ \E ok \in BOOLEAN :
                 IF ok THEN pc' = "Done" /\ messages' = <<>>
                 ELSE pc' = "Failed" /\ messages' = <<QaError>>
       ELSE /\ calls' = <<>>
            /\ pc' = "Done"
            /\ messages' = <<EnterQuestion>>
    /\ UNCHANGED <<lists, nlp_qa>>

(***************************************************************************)
(* Scratch lists: medication_tracker(), personal_journal(),                *)
(* appointment_scheduler().                                                *)
(***************************************************************************)
Medication(name, dosage, frequency) ==
    [Medication |-> name, Dosage |-> dosage, Frequency |-> frequency]
JournalEntry(date, text) == [date |-> date, entry |-> text]
Appointment(title, date, time) == [title |-> title, date |-> date, time |-> time]

Success(text) == Msg("success", text)

\* Scratch-list runs call no provider and draw the list.
ListRun(name, ok, msg, shown) ==
    /\ feature' = name
    /\ pc' = IF ok THEN "Done" ELSE "Failed"
    /\ input' = NoForm
    /\ calls' = <<>>
    /\ messages' = <<msg>>
    /\ ClearFetched
    /\ rendered' = shown
    /\ UNCHANGED nlp_qa

\* AddMedication that keeps one copy of an entry.
AddMedicationOnce(name, dosage, frequency) ==
    /\ Rerun("Medication Tracker")
    /\ IF name # "" /\ dosage # "" /\ frequency # ""
       THEN /\ Len(medications) < MaxList
            /\ medications' =
                 IF \E i \in DOMAIN medications :
                        medications[i] = Medication(name, dosage, frequency)
                 THEN medications
                 ELSE Append(medications, Medication(name, dosage, frequency))
            /\ ListRun("medications", TRUE, Success("Medication added successfully!"),
                       DisplayMedications(medications'))
       ELSE /\ UNCHANGED medications
            /\ ListRun("medications", FALSE, Error("Please fill in all fields."),
                       DisplayMedications(medications'))
    /\ UNCHANGED <<journal_entries, appointments>>

\* "Add Medication" submitted (lines 811-820).
AddMedication(name, dosage, frequency) ==
    /\ Rerun("Medication Tracker")
    /\ IF name # "" /\ dosage # "" /\ frequency # ""
       THEN /\ Len(medications) < MaxList
            /\ medications' = Append(medications, Medication(name, dosage, frequency))
            /\ ListRun("medications", TRUE, Success("Medication added successfully!"),
                       DisplayMedications(medications'))
       ELSE /\ UNCHANGED medications
            /\ ListRun("medications", FALSE, Error("Please fill in all fields."),
                       DisplayMedications(medications'))
    /\ UNCHANGED <<journal_entries, appointments>>

\* list.pop(i) for 0 <= i < len(xs), i counted from 0.
Pop(xs, i) == [k \in 1..(Len(xs) - 1) |-> IF k <= i THEN xs[k] ELSE xs[k + 1]]

\* The position list.pop(i) removes: i itself, len + i for a negative i
\* within the list, and no position (IndexError) for any other i.
NoPosition == -1
PopIndex(xs, i) ==
    IF i \in 0..(Len(xs) - 1) THEN i
    ELSE IF i < 0 /\ Len(xs) + i >= 0 THEN Len(xs) + i
    ELSE NoPosition

\* "Remove Selected Medication" pressed (lines 822-835).  The widgets are
\* drawn for a non-empty list only; index is the number the number_input
\* returns in this run, which pop alone checks against the list.  The table
\* of line 825 is drawn before the pop of line 832.
RemoveMedication(index) ==
    /\ Rerun("Medication Tracker")
    /\ medications # <<>>
    /\ IF PopIndex(medications, index) # NoPosition
       THEN /\ medications' = Pop(medications, PopIndex(medications, index))
            /\ ListRun("medications", TRUE, Success("Medication removed."),
                       DisplayMedications(medications))
       ELSE /\ UNCHANGED medications
            /\ ListRun("medications", FALSE, Error("Invalid index. Cannot remove."),
                       DisplayMedications(medications))
    /\ UNCHANGED <<journal_entries, appointments>>

\* "Save Entry" submitted (lines 853-861).
SaveEntry(date, text) ==
    /\ Rerun("Personal Journal")
    /\ IF Strip(text) # ""
       THEN /\ Len(journal_entries) < MaxList
            /\ journal_entries' = Append(journal_entries, JournalEntry(date, text))
            /\ ListRun("journal", TRUE, Success("Journal entry saved!"),
                       DisplayJournal(journal_entries'))
       ELSE /\ UNCHANGED journal_entries
            /\ ListRun("journal", FALSE, Error("Please write something in the journal entry."),
                       DisplayJournal(journal_entries'))
    /\ UNCHANGED <<medications, appointments>>

\* "Add Appointment" submitted (lines 887-896).
AddAppointment(title, date, time) ==
    /\ Rerun("Appointment Scheduler")
    /\ IF Strip(title) # ""
       THEN /\ Len(appointments) < MaxList
            /\ appointments' = Append(appointments, Appointment(title, date, time))
            /\ ListRun("appointments", TRUE, Success("Appointment added successfully!"),
                       DisplayAppointments(appointments'))
       ELSE /\ UNCHANGED appointments
            /\ ListRun("appointments", FALSE, Error("Please provide a title for the appointment."),
                       DisplayAppointments(appointments'))
    /\ UNCHANGED <<medications, journal_entries>>

(***************************************************************************)
(* Specifications.                                                         *)
(***************************************************************************)
\* What the page parameter of a load can be: a page of the navbar, absent,
\* a name with "+" for the space, and a name that is no page.
QueryValues == PageSet \cup {NoParam, "Symptom+Checker", "Settings"}

Navigation == \E q \in QueryValues : LoadPage(q)

HospitalLocator ==
    \/ \E location \in Locations : FindHospitals(location)
    \/ Geocode
    \/ LocateFacilities
    \/ RenderHospitals

ResearchLookup ==
    \/ \E topic \in Topics : GetLatestResearch(topic)
    \/ Search
    \/ Fetch
    \/ ParseArticles

TrialFinder ==
    \/ \E form \in TrialForms : FindClinicalTrials(form)
    \/ QueryTrials
    \/ ParseTrials

Chatbot == \E question \in Questions : GetAnswer(question)

MedNames == {"", " ", "Aspirin"}
Dosages == {"", "100mg"}
Frequencies == {"", "daily"}
EntryTexts == {"", " ", "Felt fine"}
Titles == {"", " ", "Checkup"}
Dates == {1, 2}
Times == {9, 14}

\* The numbers a removal run can receive from the index field.
RemoveIndexes == (-1)..MaxList

\* The medication forms submitted: complete, with a name of one space, and
\* with each field left empty.
MedForms ==
    {<<"Aspirin", "100mg", "daily">>, <<" ", "100mg", "daily">>, <<"", "100mg", "daily">>,
     <<"Aspirin", "", "daily">>, <<"Aspirin", "100mg", "">>}

\* The date and time of the appointments added.
Slots == {<<1, 9>>, <<1, 14>>, <<2, 9>>}

ScratchLists ==
    \/ \E form \in MedForms : AddMedication(form[1], form[2], form[3])
    \/ \E index \in RemoveIndexes : RemoveMedication(index)
    \/ \E date \in Dates, text \in EntryTexts : SaveEntry(date, text)
    \/ \E title \in Titles, slot \in Slots : AddAppointment(title, slot[1], slot[2])

\* The medication list as the only scratch list in use, one entry value.
OneMedication ==
    \/ \E name \in {"", "Aspirin"} : AddMedication(name, "100mg", "daily")
    \/ RemoveMedication(0)

Next ==
    \/ Navigation
    \/ HospitalLocator
    \/ ResearchLookup
    \/ TrialFinder
    \/ Chatbot
    \/ ScratchLists

\* The links to the pages of the scratch lists.
ListPages ==
    \E q \in {"Medication Tracker", "Personal Journal", "Appointment Scheduler"} :
        LoadPage(q)

NextLists ==
    \/ ListPages
    \/ ScratchLists

\* A session that uses the three scratch lists.
SpecLists == Init /\ [][NextLists]_vars

\* The whole application.
Spec == Init /\ [][Next]_vars

NextAggregator ==
    \/ Navigation
    \/ HospitalLocator
    \/ ResearchLookup
    \/ TrialFinder
    \/ Chatbot
    \/ OneMedication

\* The aggregator features and the chatbot, beside a session whose scratch
\* data is a medication list of one entry value.
SpecAggregator == Init /\ [][NextAggregator]_vars

(***************************************************************************)
(* Properties.                                                             *)
(***************************************************************************)
Range(f) == {f[i] : i \in DOMAIN f}
Providers == [i \in 1..Len(calls) |-> calls[i].provider]
CallsTo(provider) == Cardinality({i \in DOMAIN calls : calls[i].provider = provider})
Aggregators == {"hospital", "research", "trials"}

\* The state of a hospital run whose geocoding returned an empty list.
C1_NotFound ==
    (feature = "hospital" /\ geocode_data = JsonList(<<>>))
        => /\ pc = "Failed"
           /\ messages = <<LocationNotFound>>
           /\ Providers = <<"nominatim">>
           /\ overpass_data = NoData
           /\ hospitals = <<>>
\* The step that receives the empty list.
C1_NoSideEffect ==
    (feature' = "hospital" /\ geocode_data' = JsonList(<<>>) /\ geocode_data # geocode_data')
        => UNCHANGED session

\* C1: when geocoding returns an empty candidate list the hospital run ends
\* with "Location not found" after the one geocoding call, no Overpass query
\* is issued, and this is so from every state the run starts in; the step
\* that receives the empty list changes nothing of the session.
C1_EmptyGeocodeIsNotFound == []C1_NotFound /\ [][C1_NoSideEffect]_vars

\* C1 witness: "Location not found" in a session that holds a medication.
C1_Witness ==
    /\ feature = "hospital"
    /\ geocode_data = JsonList(<<>>)
    /\ messages = <<LocationNotFound>>
    /\ medications # <<>>

\* C2: in the three aggregator features every failure ends the run with one
\* error message; no exception leaves the page function.
C2_ErrorsReportedOnce ==
    feature \in Aggregators
        => /\ \A i \in DOMAIN messages : messages[i].level # "exception"
           /\ (pc = "Failed" => Len(messages) = 1 /\ messages[1].level = "error")

\* C3: every HTTP call carries timeout 10 and the fixed User-Agent.
C3_EveryCallBounded ==
    \A i \in DOMAIN calls :
        calls[i].provider # "nlp_qa"
            => calls[i].timeout = TIMEOUT /\ calls[i].user_agent = USER_AGENT

\* The order of the positions of a hospital run.
Rank(p) ==
    CASE p = "Idle" -> 0
      [] p = "Geocoding" -> 1
      [] p = "LocatingFacilities" -> 2
      [] p = "Rendering" -> 3
      [] OTHER -> 4
IsPrefix(a, b) == Len(a) <= Len(b) /\ \A i \in 1..Len(a) : a[i] = b[i]
C4_Order ==
    feature = "hospital"
        => /\ Providers \in {<<>>, <<"nominatim">>, <<"nominatim", "overpass">>}
           /\ (pc = "Geocoding" <=> calls = <<>>)
           /\ (pc = "LocatingFacilities" => Len(calls) = 1 /\ coord # NoCoord)
           /\ (pc = "Rendering" => Len(calls) = 2)
           /\ (Len(calls) = 2 =>
                 /\ coord # NoCoord
                 /\ geocode_data.t = "list"
                 /\ Truthy(geocode_data.items[1].lat)
                 /\ Truthy(geocode_data.items[1].lon))
           /\ (Len(calls) >= 1 /\ coord = NoCoord => pc = "Failed" /\ Len(calls) = 1)
C4_Forward ==
    /\ (feature = "hospital" /\ pc \in {"Geocoding", "LocatingFacilities", "Rendering"})
          => /\ feature' = "hospital"
             /\ Rank(pc') > Rank(pc)
             /\ IsPrefix(calls, calls')
             /\ Len(calls') <= Len(calls) + 1
    /\ (Idle /\ feature' = "hospital" /\ pc' # pc) => (pc' = "Geocoding" /\ calls' = <<>>)

\* C4: a hospital run only moves forward; the providers are called at most
\* once each, geocoding first; the Overpass query follows only a geocoding
\* that produced a coordinate, and a geocoding that produced none ends the
\* run after that one call.
C4_ForwardOnly == []C4_Order /\ [][C4_Forward]_vars

\* C4 witness: a completed run, both providers called.
C4_Witness == feature = "hospital" /\ pc = "Done" /\ Len(calls) = 2 /\ hospitals # <<>>

\* A required input of the run's form is empty.
RequiredInputEmpty ==
    \/ (feature \in {"hospital", "research", "qa"} /\ input.text = "")
    \/ (feature = "trials" /\ (input.text = "" \/ input.location = ""))

\* C5: a submission whose required input is empty makes no external call.
C5_EmptyInputMakesNoCall == RequiredInputEmpty => calls = <<>>

\* The hospital run has passed the extraction loop.
Extracted ==
    /\ feature = "hospital"
    /\ pc \in {"Done", "Failed"}
    /\ overpass_data # NoData
    /\ overpass_data.t = "dict"

NoDirect(e) == e.lat.t = "none" /\ e.lon.t = "none"
HasCenter(e) == e.center.present /\ e.center.lat.t # "none" /\ e.center.lon.t # "none"

\* The rows of one element: none without any coordinate, the center's values
\* with only a center, the extraction loop's otherwise.
C6_Row(e) ==
    IF NoDirect(e) /\ HasCenter(e)
    THEN <<[Name |-> HospitalName(e), Latitude |-> e.center.lat.n, Longitude |-> e.center.lon.n]>>
    ELSE IF NoDirect(e) THEN <<>>
    ELSE ExtractHospitals(<<e>>)
RECURSIVE C6_Rows(_)
C6_Rows(es) == IF es = <<>> THEN <<>> ELSE C6_Row(Head(es)) \o C6_Rows(Tail(es))

\* C6: an element with neither a direct nor a center coordinate is excluded,
\* an element with only a center coordinate is included with the center's
\* values.  Elements with a direct coordinate are taken as the code takes them.
C6_CenterFallback == Extracted => hospitals = C6_Rows(overpass_data.elements)

\* The coordinate an element carries, directly or in its center.
PresentLat(e) == IF e.lat.t # "none" THEN e.lat ELSE e.center.lat
PresentLon(e) == IF e.lon.t # "none" THEN e.lon ELSE e.center.lon
HasBoth(e) == PresentLat(e).t # "none" /\ PresentLon(e).t # "none"
C7_Names(es) == [i \in 1..Len(es) |-> IF es[i].name.t = "none" THEN "Unnamed Hospital" ELSE es[i].name.s]

\* C7: the result list is the provider's elements, in order, that have a
\* latitude and a longitude (direct or center), whatever their values; a
\* missing name becomes "Unnamed Hospital"; an empty result is reported as
\* "No hospitals found".
C7_RetainsAllWithCoordinates ==
    Extracted =>
        LET kept == SelectSeq(overpass_data.elements, HasBoth) IN
        /\ [i \in 1..Len(hospitals) |-> hospitals[i].Name] = C7_Names(kept)
        /\ (kept = <<>> <=> messages = <<NoHospitals>>)

\* C8: when the research parse error is reported, no article was rendered.
C8_NoPartialResults ==
    (feature = "research" /\ ResearchParseError \in Range(messages))
        => rendered = <<>> /\ messages = <<ResearchParseError>>

\* "," between the identifiers, built from the left.
RECURSIVE CommaJoined(_)
CommaJoined(ids) ==
    IF Len(ids) = 0 THEN ""
    ELSE IF Len(ids) = 1 THEN ids[1]
    ELSE CommaJoined(SubSeq(ids, 1, Len(ids) - 1)) \o "," \o ids[Len(ids)]

\* C9: an empty identifier list ends the research run with the "no articles
\* found" warning and without an efetch call; a non-empty list is followed by
\* exactly one efetch call, for all identifiers comma-joined.
C9_FetchOnlyWhenFound ==
    feature = "research"
        => /\ CallsTo("efetch") <= 1
           /\ (id_list.t = "list" /\ id_list.items = <<>>)
                 => /\ pc = "Done"
                    /\ messages = <<NoArticles>>
                    /\ Providers = <<"esearch">>
           /\ (id_list.t = "list" /\ id_list.items # <<>> /\ pc # "Fetching")
                 => /\ Providers = <<"esearch", "efetch">>
                    /\ calls[2].arg.text = CommaJoined(id_list.items)
           /\ (CallsTo("efetch") = 1 => id_list.t = "list" /\ id_list.items # <<>>)

\* C9 witness: two identifiers fetched in one call.
C9_Witness ==
    /\ feature = "research"
    /\ pc = "Done"
    /\ id_list = JsonList(<<"111", "222">>)
    /\ CallsTo("efetch") = 1
    /\ calls[2].arg.text = "111,222"

\* The run has parsed a document whose record container holds records, a
\* single one being a mapping.
ParsedRecords(name, root) ==
    /\ feature = name
    /\ pc \in {"Done", "Failed"}
    /\ document # NoData
    /\ document.wellformed
    /\ document.root = root
    /\ document.children # <<>>
    /\ (Len(document.children) = 1 => document.children[1].t = "dict")

\* C10: in the research lookup and the trial finder the normalised record
\* list is the provider's records in order, of length 1 for a single record
\* and N for N records, and each row written comes from one record.
C10_NormalizedLength ==
    (ParsedRecords("research", "PubmedArticleSet") \/ ParsedRecords("trials", "clinical_studies"))
        => /\ records = document.children
           /\ Len(records) = Len(document.children)
           /\ Len(rendered) <= Len(records)
           /\ (messages = <<>> => Len(rendered) = Len(records))

\* C10 witness: a single study, rendered as one row.
C10_Witness ==
    /\ ParsedRecords("trials", "clinical_studies")
    /\ Len(document.children) = 1
    /\ Len(records) = 1
    /\ Len(rendered) = 1

\* A fetched, well-formed trial document without a clinical_study element:
\* the clinical_studies container is missing or has no children.
ZeroStudies ==
    /\ feature = "trials"
    /\ pc \in {"Done", "Failed"}
    /\ document # NoData
    /\ document.wellformed
    /\ (document.root # "clinical_studies" \/ document.children = <<>>)

\* C11: a fetched, well-formed trial response with zero study records ends
\* with the "No clinical trials found" warning and never with the parse error.
C11_ZeroStudiesIsNotFound == ZeroStudies => messages = <<NoTrials>>

\* A finished trial run over studies in which nothing but the location
\* section can fail: every clinical_study is an element with children and
\* its id_info, when present, is an element with children.
LocationsOnly ==
    /\ feature = "trials"
    /\ pc \in {"Done", "Failed"}
    /\ document # NoData
    /\ document.wellformed
    /\ document.root = "clinical_studies"
    /\ document.children # <<>>
    /\ \A i \in DOMAIN document.children :
         document.children[i].t = "dict" /\ document.children[i].id_info # "none"

\* The locations texts the location section of a study allows: the country
\* names comma-joined, "Unknown" for an absent or empty section, and either
\* of the two for names that are text rather than location elements.
C12_Locations(study) ==
    LET c == study.countries IN
    CASE c.k \in {"absent", "none"} -> {"Unknown"}
      [] c.k = "names" -> {"Unknown", Join(c.names, ", ")}
      [] OTHER -> {Join(c.names, ", ")}

\* C12: every study of the batch is rendered, with its country names
\* comma-joined or "Unknown" when the location section is absent, empty or
\* unparsable, and no location section makes the batch end in a parse error.
C12_LocationsNeverFailTheBatch ==
    LocationsOnly
        => /\ messages = <<>>
           /\ Len(rendered) = Len(document.children)
           /\ \A i \in DOMAIN rendered :
                rendered[i].locations \in C12_Locations(document.children[i])

\* A field that is empty or holds only whitespace.
Blank(s) == Strip(s) = ""

\* The step leaves the three lists alone and writes one error message.
Rejected ==
    /\ UNCHANGED lists
    /\ Len(messages') = 1
    /\ messages'[1].level = "error"

\* C13: an add to any of the three scratch lists with a required field
\* (medication name, dosage, frequency; journal text; appointment title) that
\* is empty or only whitespace is rejected with an error and changes no list.
C13_BlankAddRejected ==
    [][/\ \A name \in MedNames, dosage \in Dosages, frequency \in Frequencies :
            (AddMedication(name, dosage, frequency)
             /\ (Blank(name) \/ Blank(dosage) \/ Blank(frequency))) => Rejected
       /\ \A date \in Dates, text \in EntryTexts :
            (SaveEntry(date, text) /\ Blank(text)) => Rejected
       /\ \A title \in Titles, date \in Dates, time \in Times :
            (AddAppointment(title, date, time) /\ Blank(title)) => Rejected]_vars

\* The step appends entry to the medications and moves no earlier entry.
AppendedLast(entry) ==
    /\ Len(medications') = Len(medications) + 1
    /\ medications'[Len(medications')] = entry
    /\ \A i \in DOMAIN medications : medications'[i] = medications[i]

\* C14: a medication add with name, dosage and frequency filled makes the
\* list one longer, with the new entry last and every earlier entry in place,
\* whether or not the list already holds an equal entry.
C14_ValidAddAppends ==
    [][\A name \in MedNames, dosage \in Dosages, frequency \in Frequencies :
          (AddMedication(name, dosage, frequency)
           /\ ~Blank(name) /\ ~Blank(dosage) /\ ~Blank(frequency))
              => AppendedLast(Medication(name, dosage, frequency))]_vars

\* C14 witness: the second of two equal entries has just been added.
C14_Witness ==
    /\ feature = "medications"
    /\ messages = <<Success("Medication added successfully!")>>
    /\ medications = <<Medication("Aspirin", "100mg", "daily"),
                       Medication("Aspirin", "100mg", "daily")>>

\* C15: a medication removal whose index is not a position of the list
\* (below 0, or the list length or more) is rejected with an error and
\* leaves the list as it is; it removes no element.
C15_OutOfRangeRemovalRejected ==
    [][\A index \in RemoveIndexes :
          (RemoveMedication(index) /\ index \notin 0..(Len(medications) - 1))
              => Rejected]_vars

\* a holds the elements of b, each as often as b does.
IsPermutation(a, b) ==
    /\ Len(a) = Len(b)
    /\ \E p \in [DOMAIN a -> DOMAIN a] :
         /\ \A i, j \in DOMAIN a : i # j => p[i] # p[j]
         /\ \A i \in DOMAIN a : a[i] = b[p[i]]

\* A run of a scratch-list page has drawn its list.
Drawn(page, name) == current_page = page /\ feature \in {"none", name} /\ Idle

\* The list of each scratch-list page as drawn: the journal by date, newest
\* first; the appointments by date and then time, earliest first; the
\* medications as stored, or as stored before the removal of the same run.
C16_Displayed ==
    /\ Drawn("Personal Journal", "journal")
         => /\ IsPermutation(rendered, journal_entries)
            /\ \A i, j \in DOMAIN rendered : i < j => rendered[i].date >= rendered[j].date
    /\ Drawn("Appointment Scheduler", "appointments")
         => /\ IsPermutation(rendered, appointments)
            /\ \A i, j \in DOMAIN rendered :
                 i < j => \/ rendered[i].date < rendered[j].date
                          \/ /\ rendered[i].date = rendered[j].date
                             /\ rendered[i].time <= rendered[j].time
    /\ Drawn("Medication Tracker", "medications")
         => \/ rendered = medications
            \/ \E i \in DOMAIN rendered : medications = Pop(rendered, i - 1)

\* A page load changes no stored list, and a stored journal or appointment
\* list changes only by one entry added at its end.
C16_StoredKept ==
    /\ (\E q \in QueryValues : LoadPage(q)) => UNCHANGED lists
    /\ journal_entries' # journal_entries
         => SubSeq(journal_entries', 1, Len(journal_entries' ) - 1) = journal_entries
    /\ appointments' # appointments
         => SubSeq(appointments', 1, Len(appointments') - 1) = appointments

\* C16: the journal is displayed sorted by date descending, the appointments
\* sorted by (date, time) ascending, the medications in insertion order, and
\* displaying changes no stored list.
C16_DisplayOrder == []C16_Displayed /\ [][C16_StoredKept]_vars

\* C16 witness: entries saved with date 1 and then date 2 are stored in that
\* order and drawn newest first.
C16_Witness ==
    /\ Drawn("Personal Journal", "journal")
    /\ journal_entries = <<JournalEntry(1, "Felt fine"), JournalEntry(2, "Felt fine")>>
    /\ rendered = <<JournalEntry(2, "Felt fine"), JournalEntry(1, "Felt fine")>>

\* The chatbot page is the page of the run.
OnChatbot == current_page = "AI Chatbot (Beta)" /\ feature \in {"none", "qa"}

\* Without a pipeline every run of the chatbot page ends with the "QA model
\* is not available" error and no call of the model; with one, a question
\* that is not blank makes exactly one call, for that question and the
\* passage of the page.
C17_Use ==
    /\ (nlp_qa = "None" /\ OnChatbot)
         => /\ messages = <<QaUnavailable>>
            /\ calls = <<>>
            /\ feature = "none"
    /\ nlp_qa = "None" => CallsTo("nlp_qa") = 0
    /\ (feature = "qa" /\ ~Blank(input.text))
         => /\ nlp_qa = "pipeline"
            /\ calls = <<QaCall(input.text)>>
            /\ calls[1].arg.point = <<CONTEXT>>

Timeouts == {ConnectTimeout, ReadTimeout}

\* The step writes msg as the one new message of the run.
Reports(msg) == messages' = Append(messages, msg)

\* Each call step, by the exception its response raised: a body that is not
\* JSON gives the invalid-response message of the call, a document that is
\* not XML the parse error, and a timeout the "try again later" message.
C18_Classified ==
    /\ \A e \in JsonErrors :
         /\ GeocodeWith(Raised(e))
              => Reports(Error("Received an invalid response from the geocoding service."))
         /\ LocateFacilitiesWith(Raised(e))
              => Reports(Error("Received an invalid response from the Overpass API."))
    /\ (ParseTrials /\ ~document.wellformed) => Reports(TrialParseError)
    /\ \A e \in Timeouts :
         /\ GeocodeWith(Raised(e))
              => Reports(Error("The request timed out. Please try again later."))
         /\ LocateFacilitiesWith(Raised(e))
              => Reports(Error("The request to Overpass API timed out. Please try again later."))
         /\ QueryTrialsWith(Raised(e))
              => Reports(Error("The request timed out. Please try again later."))

\* C18: in the hospital locator and the trial finder a success response
\* whose body cannot be parsed is reported as an invalid response or parse
\* error, never as a timeout or a network or HTTP failure, and a timeout is
\* reported with the "try again later" message.
C18_MalformedIsNotNetworkFailure == [][C18_Classified]_vars

\* A load sets the page by its page parameter: "Home" without one, the page
\* it names, and the page of the session for a value that names none; it
\* changes no scratch list.
C19_Load ==
    \A q \in QueryValues :
        LoadPage(q)
            => /\ q = NoParam => current_page' = "Home"
               /\ (q # NoParam /\ SelectedPage(q) \in PageSet)
                    => current_page' = SelectedPage(q)
               /\ (q # NoParam /\ SelectedPage(q) \notin PageSet)
                    => current_page' = current_page
               /\ UNCHANGED lists

\* C19: current_page is always one of PAGES; a load without a page parameter
\* sets it to "Home", with a recognised page to that page, with an
\* unrecognised value leaves it unchanged, and no load changes the
\* medications, the journal or the appointments.
C19_PageStaysInPages == [](current_page \in PageSet) /\ [][C19_Load]_vars

\* C19 witness: a load with an unknown page value has kept the medication
\* page and its stored list.
C19_Witness ==
    /\ query_page = "Settings"
    /\ current_page = "Medication Tracker"
    /\ feature = "none"
    /\ medications # <<>>

====
